---- MODULE Spec2Model ----
(***************************************************************************)
(* Quality Rating Engine of dashboard_calidad:                             *)
(*   metrics/quality_rating.py  QualityRatingCalculator,                   *)
(*                              QualityReportGenerator                     *)
(*   metrics/reliability_metrics.py, maintainability_metrics.py,           *)
(*   performance_metrics.py     the metrics classes                        *)
(*   parsers/junit_parser.py, jacoco_parser.py                             *)
(*   ui/main_window.py          QualityDashboard: loading and the summary  *)
(*                              tab                                        *)
(*                                                                         *)
(* Numbers.  The Python code computes with int and float.  The model       *)
(* computes with exact rationals <<n, d>> (d > 0, lowest terms), so every  *)
(* comparison and every threshold test is decided on the exact value.      *)
(* Binary rounding of the float operations is not modelled.                *)
(*                                                                         *)
(* Python values.  A dict is a TLA+ record (a function on its keys); None  *)
(* is the record None below, which has no key a dict of the program has.   *)
(* A raised exception is a value [raised |-> <type>, key |-> <key>].       *)
(***************************************************************************)
EXTENDS Integers, Sequences, FiniteSets, TLC

VARIABLES junit_data, jacoco_data, ret, window

vars == <<junit_data, jacoco_data, ret, window>>

(***************************************************************************)
(* Exact rational arithmetic                                               *)
(***************************************************************************)
Abs(n) == IF n < 0 THEN -n ELSE n

RECURSIVE GCD(_, _)
GCD(a, b) == IF b = 0 THEN a ELSE GCD(b, a % b)

\* n/d in lowest terms with a positive denominator (d # 0)
Rat(n, d) ==
    LET g == GCD(Abs(n), Abs(d))
        s == IF d < 0 THEN -1 ELSE 1
    IN  <<(s * n) \div g, (s * d) \div g>>

\* an int as a rational
Whole(n) == <<n, 1>>

RAdd(x, y) == Rat(x[1] * y[2] + y[1] * x[2], x[2] * y[2])
RSub(x, y) == Rat(x[1] * y[2] - y[1] * x[2], x[2] * y[2])
RMul(x, y) == Rat(x[1] * y[1], x[2] * y[2])
RDiv(x, y) == Rat(x[1] * y[2], x[2] * y[1])
RLe(x, y) == x[1] * y[2] <= y[1] * x[2]
RLt(x, y) == x[1] * y[2] < y[1] * x[2]
REq(x, y) == x[1] * y[2] = y[1] * x[2]
RMin(x, y) == IF RLe(x, y) THEN x ELSE y
RMax(x, y) == IF RLe(x, y) THEN y ELSE x

RECURSIVE Pow10(_)
Pow10(k) == IF k = 0 THEN 1 ELSE 10 * Pow10(k - 1)

\* f'{x:.kf}': x rounded to k decimals (ties to even), as the integer
\* number of 10^-k units that the formatted text shows
Fmt(x, k) ==
    LET n == x[1] * Pow10(k)
        q == n \div x[2]
        r == n % x[2]
    IN  IF 2 * r > x[2] THEN q + 1
        ELSE IF 2 * r < x[2] THEN q
        ELSE IF q % 2 = 0 THEN q ELSE q + 1

(***************************************************************************)
(* Python dict access                                                      *)
(***************************************************************************)
None == [NoneType |-> TRUE]

\* no call has returned yet
NoCall == [op |-> "none"]

\* truth value of a dict-or-None: `if not d`
Truthy(d) == d # None /\ DOMAIN d # {}

\* d.get(k, default)
Get(d, k, default) == IF k \in DOMAIN d THEN d[k] ELSE default

KeyError(k) == [raised |-> "KeyError", key |-> k]

IsRaised(v) == "raised" \in DOMAIN v

(***************************************************************************)
(* QualityRatingCalculator: class-level tables                             *)
(***************************************************************************)
WEIGHT_RELIABILITY == Rat(40, 100)
WEIGHT_MAINTAINABILITY == Rat(40, 100)
WEIGHT_PERFORMANCE == Rat(20, 100)

PERFORMANCE_THRESHOLD == Rat(5, 10)

\* the dict RATING_RANGES in its insertion order, which is the order
\* .items() yields: <<rating, min_score, max_score>>
RATING_RANGES ==
    << <<"A", Whole(90), Whole(100)>>,
       <<"B", Whole(80), Whole(89)>>,
       <<"C", Whole(70), Whole(79)>>,
       <<"D", Whole(60), Whole(69)>>,
       <<"E", Whole(0), Whole(59)>> >>

RATING_COLORS ==
    [A |-> "#28a745", B |-> "#5cb85c", C |-> "#ffc107",
     D |-> "#fd7e14", E |-> "#dc3545"]

Letters == {"A", "B", "C", "D", "E"}

\* the calculator object: its two attributes
Self == [junit_data |-> junit_data, jacoco_data |-> jacoco_data]

(***************************************************************************)
(* QualityRatingCalculator: the three factor scores.  Each returns the     *)
(* tuple <<score, details>>.  An f-string is the tuple of its literal      *)
(* pieces and its formatted numbers.                                       *)
(***************************************************************************)
\* faulty variant: errors are not counted as faults
FaultDensity_FailuresOnly(failures, errors, total_tests) ==
    Rat(failures, total_tests)

\* fault_density = (failures + errors) / total_tests
FaultDensity(failures, errors, total_tests) ==
    Rat(failures + errors, total_tests)

\* faulty variant: the fraction is not scaled to a percentage
ReliabilityScoreOf_Fraction(fault_density) ==
    RSub(Whole(1), fault_density)

\* reliability_score = (1 - fault_density) * 100
ReliabilityScoreOf(fault_density) ==
    RMul(RSub(Whole(1), fault_density), Whole(100))

\* faulty variant: the optimistic default of the performance score
NoTestsExecuted_Optimistic ==
    <<Whole(100), [note |-> "No tests executed, assuming optimal"]>>

\* what calculate_reliability_score returns when total_tests == 0
NoTestsExecuted == <<Whole(0), [error |-> "No tests executed"]>>

ReliabilityTrace(total_tests, failures, errors, fault_density, reliability_score) ==
    <<reliability_score,
      [total_tests |-> total_tests,
       failures |-> failures,
       errors |-> errors,
       fault_density |-> RMul(fault_density, Whole(100)),
       formula |-> "RS = (1 - FD) x 100",
       standard |-> "IEEE Std 982.1-1988, Section 3.5.1",
       calculation |-> <<"RS = (1 - ", Fmt(fault_density, 4),
                         ") x 100 = ", Fmt(reliability_score, 2)>>]>>

ReliabilityOf(total_tests, failures, errors, fault_density) ==
    ReliabilityTrace(total_tests, failures, errors, fault_density,
                     ReliabilityScoreOf(fault_density))

calculate_reliability_score(self) ==
    IF ~Truthy(self.junit_data)
    THEN <<Whole(0), [error |-> "No JUnit data available"]>>
    ELSE IF Get(self.junit_data, "total_tests", 0) = 0
    THEN NoTestsExecuted
    ELSE ReliabilityOf(Get(self.junit_data, "total_tests", 0),
                       Get(self.junit_data, "failures", 0),
                       Get(self.junit_data, "errors", 0),
                       FaultDensity(Get(self.junit_data, "failures", 0),
                                    Get(self.junit_data, "errors", 0),
                                    Get(self.junit_data, "total_tests", 0)))

\* faulty variant: the two weights are swapped
MaintainabilityScoreOf_Swapped(line_coverage, branch_coverage) ==
    RAdd(RMul(Rat(4, 10), line_coverage), RMul(Rat(6, 10), branch_coverage))

\* maintainability_score = (w_line * line_coverage) + (w_branch * branch_coverage)
\* with w_line = 0.6, w_branch = 0.4
MaintainabilityScoreOf(line_coverage, branch_coverage) ==
    RAdd(RMul(Rat(6, 10), line_coverage), RMul(Rat(4, 10), branch_coverage))

MaintainabilityTrace(jacoco, line_coverage, branch_coverage, maintainability_score) ==
    <<maintainability_score,
      [line_coverage |-> line_coverage,
       branch_coverage |-> branch_coverage,
       lines_covered |-> Get(jacoco, "lines_covered", 0),
       lines_total |-> Get(jacoco, "lines_total", 0),
       branches_covered |-> Get(jacoco, "branches_covered", 0),
       branches_total |-> Get(jacoco, "branches_total", 0),
       formula |-> "MS = (0.6 x LC) + (0.4 x BC)",
       standards |-> <<"ISO/IEC 25010:2011, Section 4.2.6",
                       "IEEE Std 829-2008, Section 5.3",
                       "IEEE Std 1061-1998, Section 3.2.2">>,
       calculation |-> <<"MS = (0.6 x ", Fmt(line_coverage, 2),
                         ") + (0.4 x ", Fmt(branch_coverage, 2),
                         ") = ", Fmt(maintainability_score, 2)>>]>>

MaintainabilityOf(jacoco, line_coverage, branch_coverage) ==
    MaintainabilityTrace(jacoco, line_coverage, branch_coverage,
                         MaintainabilityScoreOf(line_coverage, branch_coverage))

calculate_maintainability_score(self) ==
    IF ~Truthy(self.jacoco_data)
    THEN <<Whole(0), [error |-> "No JaCoCo data available"]>>
    ELSE MaintainabilityOf(self.jacoco_data,
                           Get(self.jacoco_data, "line_coverage", Whole(0)),
                           Get(self.jacoco_data, "branch_coverage", Whole(0)))

\* faulty variant: the optimistic default also without a summary
NoJUnitPerformance_Optimistic ==
    <<Whole(100), [note |-> "No performance data, assuming optimal"]>>

\* what calculate_performance_score returns when junit_data is falsy
NoJUnitPerformance == <<Whole(0), [error |-> "No JUnit data available"]>>

\* faulty variant: a zero denominator is reported as an error with score 0,
\* as the other two scorers do
NoPerformanceData_Error == <<Whole(0), [error |-> "No performance data"]>>

\* what calculate_performance_score returns when total_tests == 0 or
\* total_time == 0
NoPerformanceData ==
    <<Whole(100), [note |-> "No performance data, assuming optimal"]>>

\* faulty variant: linear decay max(0, 100 - avg_test_time * 100)
PerformanceScoreOf_Linear(avg_test_time) ==
    RMax(Whole(0), RSub(Whole(100), RMul(avg_test_time, Whole(100))))

\* faulty variant: the ratio is neither capped nor guarded by the threshold
PerformanceScoreOf_Uncapped(avg_test_time) ==
    RMul(RDiv(PERFORMANCE_THRESHOLD, avg_test_time), Whole(100))

\* performance_score from avg_test_time: 100 up to the threshold, then
\* min(100, threshold / avg_test_time * 100)
PerformanceScoreOf(avg_test_time) ==
    IF RLe(avg_test_time, PERFORMANCE_THRESHOLD)
    THEN Whole(100)
    ELSE RMin(Whole(100),
              RMul(RDiv(PERFORMANCE_THRESHOLD, avg_test_time), Whole(100)))

\* throughput = total_tests / total_time if total_time > 0 else 0
Throughput(total_tests, total_time) ==
    IF RLt(Whole(0), total_time)
    THEN RDiv(Whole(total_tests), total_time)
    ELSE Whole(0)

PerformanceTrace(total_time, total_tests, avg_test_time, performance_score) ==
    <<performance_score,
      [total_execution_time |-> total_time,
       total_tests |-> total_tests,
       avg_test_time |-> avg_test_time,
       threshold_time |-> PERFORMANCE_THRESHOLD,
       throughput |-> Throughput(total_tests, total_time),
       formula |-> "PS = min(100, (Threshold / Avg_Time) x 100)",
       standard |-> "ISO/IEC 25010:2011, Section 4.2.1",
       calculation |-> <<"PS = min(100, (0.5 / ", Fmt(avg_test_time, 4),
                         ") x 100) = ", Fmt(performance_score, 2)>>]>>

PerformanceOf(total_time, total_tests, avg_test_time) ==
    PerformanceTrace(total_time, total_tests, avg_test_time,
                     PerformanceScoreOf(avg_test_time))

calculate_performance_score(self) ==
    IF ~Truthy(self.junit_data)
    THEN NoJUnitPerformance
    ELSE IF \/ Get(self.junit_data, "total_tests", 0) = 0
            \/ REq(Get(self.junit_data, "execution_time", Whole(0)), Whole(0))
    THEN NoPerformanceData
    ELSE PerformanceOf(Get(self.junit_data, "execution_time", Whole(0)),
                       Get(self.junit_data, "total_tests", 0),
                       RDiv(Get(self.junit_data, "execution_time", Whole(0)),
                            Whole(Get(self.junit_data, "total_tests", 0))))

(***************************************************************************)
(* _get_rating: the first band of RATING_RANGES, in order, that holds wqs; *)
(* 'E' when the loop ends without a match                                  *)
(***************************************************************************)
InBand(i, wqs) ==
    RLe(RATING_RANGES[i][2], wqs) /\ RLe(wqs, RATING_RANGES[i][3])

MatchingBands(wqs) == {i \in DOMAIN RATING_RANGES : InBand(i, wqs)}

FirstBand(wqs) ==
    CHOOSE i \in MatchingBands(wqs) : \A k \in MatchingBands(wqs) : i <= k

_get_rating(wqs) ==
    IF MatchingBands(wqs) # {}
    THEN RATING_RANGES[FirstBand(wqs)][1]
    ELSE "E"

\* faulty variant: the weights of maintainability and performance are swapped
WeightedScore_SwappedWeights(rel, maint, perf) ==
    RAdd(RAdd(RMul(WEIGHT_RELIABILITY, rel[1]),
              RMul(WEIGHT_PERFORMANCE, maint[1])),
         RMul(WEIGHT_MAINTAINABILITY, perf[1]))

\* the body of calculate_weighted_quality_score after the three scorer
\* calls: rel, maint, perf are their <<score, details>> results
WeightedScore(rel, maint, perf) ==
    RAdd(RAdd(RMul(WEIGHT_RELIABILITY, rel[1]),
              RMul(WEIGHT_MAINTAINABILITY, maint[1])),
         RMul(WEIGHT_PERFORMANCE, perf[1]))

WeightedDetails(rel, maint, perf, wqs, rating) ==
    [weighted_quality_score |-> wqs,
     rating |-> rating,
     rating_color |-> RATING_COLORS[rating],
     weights |-> [reliability |-> WEIGHT_RELIABILITY,
                  maintainability |-> WEIGHT_MAINTAINABILITY,
                  performance |-> WEIGHT_PERFORMANCE],
     scores |-> [reliability |-> rel[1],
                 maintainability |-> maint[1],
                 performance |-> perf[1]],
     details |-> [reliability |-> rel[2],
                  maintainability |-> maint[2],
                  performance |-> perf[2]],
     formula |-> "WQS = (0.40 x RS) + (0.40 x MS) + (0.20 x PS)",
     standard |-> "ISO/IEC 25010:2011, Section 4.1",
     calculation |-> <<"WQS = (0.40 x ", Fmt(rel[1], 2),
                       ") + (0.40 x ", Fmt(maint[1], 2),
                       ") + (0.20 x ", Fmt(perf[1], 2),
                       ") = ", Fmt(wqs, 2)>>]

WeightedResult(rel, maint, perf, wqs) ==
    <<wqs, WeightedDetails(rel, maint, perf, wqs, _get_rating(wqs))>>

WeightedOf(rel, maint, perf) ==
    WeightedResult(rel, maint, perf, WeightedScore(rel, maint, perf))

calculate_weighted_quality_score(self) ==
    WeightedOf(calculate_reliability_score(self),
               calculate_maintainability_score(self),
               calculate_performance_score(self))

QualityMetrics(reliability_score, maintainability_score, performance_score, res) ==
    [reliability_score |-> reliability_score,
     maintainability_score |-> maintainability_score,
     performance_score |-> performance_score,
     weighted_quality_score |-> res[1],
     rating |-> res[2].rating,
     rating_color |-> res[2].rating_color]

get_quality_metrics(self) ==
    QualityMetrics(calculate_reliability_score(self)[1],
                   calculate_maintainability_score(self)[1],
                   calculate_performance_score(self)[1],
                   calculate_weighted_quality_score(self))

descriptions ==
    [A |-> [title |-> "Excelente",
            description |-> "Calidad Superior - El codigo cumple con los mas altos estandares de calidad",
            recommendation |-> "Mantener las buenas practicas actuales",
            icon |-> "trophy"],
     B |-> [title |-> "Bueno",
            description |-> "Calidad Alta - El codigo esta bien estructurado con mejoras menores posibles",
            recommendation |-> "Enfocarse en alcanzar cobertura completa y reducir fallos ocasionales",
            icon |-> "check"],
     C |-> [title |-> "Aceptable",
            description |-> "Calidad Media - El codigo es funcional pero requiere mejoras",
            recommendation |-> "Aumentar cobertura de pruebas y reducir la densidad de fallos",
            icon |-> "warning"],
     D |-> [title |-> "Pobre",
            description |-> "Necesita Mejora - El codigo presenta deficiencias significativas",
            recommendation |-> "Priorizar refactorizacion y aumento de pruebas unitarias",
            icon |-> "cross"],
     E |-> [title |-> "Critico",
            description |-> "Requiere Atencion Inmediata - La calidad es inaceptable",
            recommendation |-> "Revision completa del codigo y estrategia de testing urgente",
            icon |-> "siren"]]

\* faulty variant: descriptions[rating], which raises on an unknown rating
get_rating_description_Subscript(rating) ==
    IF rating \in DOMAIN descriptions
    THEN descriptions[rating]
    ELSE KeyError(rating)

get_rating_description(rating) == Get(descriptions, rating, descriptions["E"])

(***************************************************************************)
(* metrics/reliability_metrics.py, metrics/maintainability_metrics.py:     *)
(* status classification by fixed thresholds, first matching test wins     *)
(***************************************************************************)
\* faulty variant: <= in place of <, the limits join the better band
get_reliability_status_Inclusive(failure_density) ==
    IF RLe(failure_density, Whole(5))
    THEN [status |-> "Excelente", color |-> "success"]
    ELSE IF RLe(failure_density, Whole(10))
    THEN [status |-> "Bueno", color |-> "info"]
    ELSE IF RLe(failure_density, Whole(20))
    THEN [status |-> "Aceptable", color |-> "warning"]
    ELSE [status |-> "Pobre", color |-> "danger"]

get_reliability_status(failure_density) ==
    IF RLt(failure_density, Whole(5))
    THEN [status |-> "Excelente", color |-> "success"]
    ELSE IF RLt(failure_density, Whole(10))
    THEN [status |-> "Bueno", color |-> "info"]
    ELSE IF RLt(failure_density, Whole(20))
    THEN [status |-> "Aceptable", color |-> "warning"]
    ELSE [status |-> "Pobre", color |-> "danger"]

\* faulty variant: > in place of >=, the limits join the worse band
get_maintainability_status_Strict(testability_score) ==
    IF RLt(Whole(80), testability_score)
    THEN [status |-> "Excelente", color |-> "success"]
    ELSE IF RLt(Whole(70), testability_score)
    THEN [status |-> "Bueno", color |-> "info"]
    ELSE IF RLt(Whole(60), testability_score)
    THEN [status |-> "Aceptable", color |-> "warning"]
    ELSE [status |-> "Pobre", color |-> "danger"]

get_maintainability_status(testability_score) ==
    IF RLe(Whole(80), testability_score)
    THEN [status |-> "Excelente", color |-> "success"]
    ELSE IF RLe(Whole(70), testability_score)
    THEN [status |-> "Bueno", color |-> "info"]
    ELSE IF RLe(Whole(60), testability_score)
    THEN [status |-> "Aceptable", color |-> "warning"]
    ELSE [status |-> "Pobre", color |-> "danger"]

(***************************************************************************)
(* QualityReportGenerator.  A report is the sequence of its lines, each    *)
(* line the tuple of its pieces.  The subscripts d['details'][f][k] are    *)
(* evaluated in the order of the text; the first one whose key is missing  *)
(* raises KeyError(k) and the call returns nothing.                        *)
(***************************************************************************)
\* the subscripted (no .get) keys of details['details'], in evaluation order
TextSubscripts ==
    << <<"reliability", "standard">>, <<"reliability", "formula">>,
       <<"reliability", "calculation">>,
       <<"maintainability", "formula">>, <<"maintainability", "calculation">>,
       <<"performance", "standard">>, <<"performance", "formula">>,
       <<"performance", "calculation">> >>

HtmlSubscripts ==
    << <<"reliability", "standard">>, <<"reliability", "formula">>,
       <<"reliability", "calculation">>,
       <<"maintainability", "formula">>, <<"maintainability", "calculation">>,
       <<"performance", "standard">>, <<"performance", "formula">>,
       <<"performance", "calculation">> >>

MissingAt(details, subs) ==
    {i \in DOMAIN subs : subs[i][2] \notin DOMAIN details.details[subs[i][1]]}

FirstMissing(details, subs) ==
    CHOOSE i \in MissingAt(details, subs) :
        \A k \in MissingAt(details, subs) : i <= k

RenderText(wqs, details, d, rating, rating_info) ==
    IF MissingAt(details, TextSubscripts) # {}
    THEN KeyError(TextSubscripts[FirstMissing(details, TextSubscripts)][2])
    ELSE
    [text |->
      << <<"REPORTE DE CALIDAD DE SOFTWARE">>,
         <<"Basado en Estandares IEEE/ISO">>,
         <<"CALIFICACION GENERAL: ", rating_info.icon, rating, rating_info.title>>,
         <<"Puntuacion WQS: ", Fmt(wqs, 2), "/100">>,
         <<"Descripcion: ", rating_info.description>>,
         <<"Recomendacion: ", rating_info.recommendation>>,
         <<"1. FIABILIDAD (Reliability) - 40% del score total">>,
         <<"   Estandar: ", d.reliability.standard>>,
         <<"   Puntuacion: ", Fmt(details.scores.reliability, 2), "/100">>,
         <<"   Formula: ", d.reliability.formula>>,
         <<"   Calculo: ", d.reliability.calculation>> >>
      \o (IF "fault_density" \in DOMAIN d.reliability
          THEN << <<"   Densidad de Fallos: ",
                    Fmt(d.reliability.fault_density, 2), "%">> >>
          ELSE << >>)
      \o
      << <<"2. MANTENIBILIDAD (Maintainability) - 40% del score total">>,
         <<"   Estandares: ", Get(d.maintainability, "standards", << >>)>>,
         <<"   Puntuacion: ", Fmt(details.scores.maintainability, 2), "/100">>,
         <<"   Formula: ", d.maintainability.formula>>,
         <<"   Calculo: ", d.maintainability.calculation>>,
         <<"3. EFICIENCIA DEL DESEMPENO (Performance) - 20% del score total">>,
         <<"   Estandar: ", d.performance.standard>>,
         <<"   Puntuacion: ", Fmt(details.scores.performance, 2), "/100">>,
         <<"   Formula: ", d.performance.formula>>,
         <<"   Calculo: ", d.performance.calculation>>,
         <<"CALCULO FINAL">>,
         <<"Formula: ", details.formula>>,
         <<"Calculo: ", details.calculation>>,
         <<"PONDERACION (segun ISO/IEC 25010:2011)">>,
         <<"  - Fiabilidad: ",
           RMul(details.weights.reliability, Whole(100)), "%">>,
         <<"  - Mantenibilidad: ",
           RMul(details.weights.maintainability, Whole(100)), "%">>,
         <<"  - Eficiencia: ",
           RMul(details.weights.performance, Whole(100)), "%">> >>]

\* wqs, details = self.calculator.calculate_weighted_quality_score()
TextReportOf(res) ==
    RenderText(res[1], res[2], res[2].details, res[2].rating,
               get_rating_description(res[2].rating))

generate_text_report(self) ==
    TextReportOf(calculate_weighted_quality_score(self))

RenderHtml(wqs, details, d, rating, rating_info) ==
    IF MissingAt(details, HtmlSubscripts) # {}
    THEN KeyError(HtmlSubscripts[FirstMissing(details, HtmlSubscripts)][2])
    ELSE
    [html |->
      << <<"color: ", details.rating_color>>, <<"border: 5px solid ", details.rating_color>>,
         <<"rating-badge", rating>>,
         <<"h2", rating_info.title>>,
         <<"Puntuacion WQS: ", Fmt(wqs, 2), "/100">>,
         <<"strong", rating_info.description>>,
         <<"Recomendacion: ", rating_info.recommendation>>,
         <<"1. FIABILIDAD (Reliability) - 40%">>,
         <<"Estandar:", d.reliability.standard>>,
         <<"Puntuacion:", Fmt(details.scores.reliability, 2), "/100">>,
         <<"Formula:", d.reliability.formula>>,
         <<"Calculo:", d.reliability.calculation>>,
         <<"2. MANTENIBILIDAD (Maintainability) - 40%">>,
         <<"Estandares:", Get(d.maintainability, "standards", << >>)>>,
         <<"Puntuacion:", Fmt(details.scores.maintainability, 2), "/100">>,
         <<"Formula:", d.maintainability.formula>>,
         <<"Calculo:", d.maintainability.calculation>>,
         <<"3. EFICIENCIA DEL DESEMPENO (Performance) - 20%">>,
         <<"Estandar:", d.performance.standard>>,
         <<"Puntuacion:", Fmt(details.scores.performance, 2), "/100">>,
         <<"Formula:", d.performance.formula>>,
         <<"Calculo:", d.performance.calculation>>,
         <<"CALCULO FINAL">>,
         <<"Formula:", details.formula>>,
         <<"Calculo:", details.calculation>>,
         <<"Fiabilidad", Fmt(RMul(details.weights.reliability, Whole(100)), 0), "%",
           Fmt(details.scores.reliability, 2),
           Fmt(RMul(details.weights.reliability, details.scores.reliability), 2)>>,
         <<"Mantenibilidad", Fmt(RMul(details.weights.maintainability, Whole(100)), 0), "%",
           Fmt(details.scores.maintainability, 2),
           Fmt(RMul(details.weights.maintainability, details.scores.maintainability), 2)>>,
         <<"Eficiencia", Fmt(RMul(details.weights.performance, Whole(100)), 0), "%",
           Fmt(details.scores.performance, 2),
           Fmt(RMul(details.weights.performance, details.scores.performance), 2)>>,
         <<"TOTAL", "100%", "-", Fmt(wqs, 2)>> >>]

HtmlReportOf(res) ==
    RenderHtml(res[1], res[2], res[2].details, res[2].rating,
               get_rating_description(res[2].rating))

generate_html_report(self) ==
    HtmlReportOf(calculate_weighted_quality_score(self))

\* faulty variant: only failures count, errors are left out
calculate_failure_density_FailuresOnly(junit) ==
    IF junit.total_tests = 0
    THEN Whole(0)
    ELSE RMul(Rat(junit.failures, junit.total_tests), Whole(100))

\* ReliabilityMetrics.calculate_failure_density
calculate_failure_density(junit) ==
    IF junit.total_tests = 0
    THEN Whole(0)
    ELSE RMul(Rat(junit.failures + junit.errors, junit.total_tests), Whole(100))

\* faulty variant: the rate is taken over the executed (not skipped) tests
calculate_success_rate_Executed(junit) ==
    IF junit.total_tests = 0 \/ junit.total_tests = junit.skipped
    THEN Whole(0)
    ELSE RMul(Rat(junit.passed, junit.total_tests - junit.skipped), Whole(100))

\* ReliabilityMetrics.calculate_success_rate
calculate_success_rate(junit) ==
    IF junit.total_tests = 0
    THEN Whole(0)
    ELSE RMul(Rat(junit.passed, junit.total_tests), Whole(100))

\* MaintainabilityMetrics.get_testability_score
get_testability_score(jacoco) ==
    RAdd(RMul(Get(jacoco, "line_coverage", Whole(0)), Rat(6, 10)),
         RMul(Get(jacoco, "branch_coverage", Whole(0)), Rat(4, 10)))

(***************************************************************************)
(* metrics/performance_metrics.py                                          *)
(***************************************************************************)
\* PerformanceMetrics.calculate_avg_test_time
calculate_avg_test_time(junit) ==
    IF junit.total_tests = 0
    THEN Whole(0)
    ELSE RDiv(junit.execution_time, Whole(junit.total_tests))

\* faulty variant: <= in place of <, the limits join the better band
PerformanceStatusOf_Inclusive(avg_time) ==
    IF RLe(avg_time, Rat(1, 10))
    THEN [status |-> "Excelente", color |-> "success"]
    ELSE IF RLe(avg_time, Rat(5, 10))
    THEN [status |-> "Bueno", color |-> "info"]
    ELSE IF RLe(avg_time, Whole(1))
    THEN [status |-> "Aceptable", color |-> "warning"]
    ELSE [status |-> "Pobre", color |-> "danger"]

\* the chain of threshold tests on avg_time
PerformanceStatusOf(avg_time) ==
    IF RLt(avg_time, Rat(1, 10))
    THEN [status |-> "Excelente", color |-> "success"]
    ELSE IF RLt(avg_time, Rat(5, 10))
    THEN [status |-> "Bueno", color |-> "info"]
    ELSE IF RLt(avg_time, Whole(1))
    THEN [status |-> "Aceptable", color |-> "warning"]
    ELSE [status |-> "Pobre", color |-> "danger"]

\* PerformanceMetrics.get_performance_status
get_performance_status(total_time, total_tests) ==
    PerformanceStatusOf(IF total_tests > 0
                        THEN RDiv(total_time, Whole(total_tests))
                        ELSE Whole(0))

(***************************************************************************)
(* parsers/junit_parser.py, parsers/jacoco_parser.py.  A report is what    *)
(* the parser reads from it: the attributes of the testsuite element, the  *)
(* sequence of counter elements; Malformed is a file etree.parse rejects.  *)
(* The reports of the model have no testcase and no package elements.      *)
(***************************************************************************)
Malformed == [malformed |-> TRUE]

ParseError(message) == [raised |-> "Exception", message |-> message]

\* the metrics dict JUnitParser.parse builds from the attributes
JUnitMetrics(tests, failures, errors, skipped, time) ==
    [total_tests |-> tests,
     failures |-> failures,
     errors |-> errors,
     skipped |-> skipped,
     execution_time |-> time,
     passed |-> tests - failures - errors - skipped,
     failure_density |-> IF tests > 0
                         THEN RMul(Rat(failures + errors, tests), Whole(100))
                         ELSE Whole(0),
     test_details |-> << >>]

\* JUnitParser.parse
JUnitParser_parse(report) ==
    IF report = Malformed
    THEN ParseError("Error parsing JUnit report")
    ELSE JUnitMetrics(Get(report, "tests", 0), Get(report, "failures", 0),
                      Get(report, "errors", 0), Get(report, "skipped", 0),
                      Get(report, "time", Whole(0)))

\* faulty variant: a counter with no items counts as fully covered
Coverage_EmptyFull(c) ==
    IF c[2] > 0 THEN RMul(Rat(c[1], c[2]), Whole(100)) ELSE Whole(100)

\* the percentage _extract_counters derives from a counter <<covered, total>>
Coverage(c) == IF c[2] > 0 THEN RMul(Rat(c[1], c[2]), Whole(100)) ELSE Whole(0)

\* the entries one counter element contributes
CounterEntries(counter, coverage) ==
    CASE counter.type = "LINE" ->
           [line_coverage |-> coverage,
            lines_covered |-> counter.covered,
            lines_total |-> counter.missed + counter.covered]
      [] counter.type = "BRANCH" ->
           [branch_coverage |-> coverage,
            branches_covered |-> counter.covered,
            branches_total |-> counter.missed + counter.covered]
      [] counter.type = "INSTRUCTION" -> [instruction_coverage |-> coverage]
      [] counter.type = "COMPLEXITY" -> [complexity_coverage |-> coverage]
      [] OTHER -> << >>

\* JaCoCoParser._extract_counters: the loop over the counter elements, a
\* later counter of a type overwrites the entries of an earlier one
RECURSIVE _extract_counters(_)
_extract_counters(counters) ==
    IF counters = << >>
    THEN << >>
    ELSE CounterEntries(counters[Len(counters)],
                        Coverage(<<counters[Len(counters)].covered,
                                   counters[Len(counters)].missed
                                     + counters[Len(counters)].covered>>))
         @@ _extract_counters(SubSeq(counters, 1, Len(counters) - 1))

\* JaCoCoParser.parse
JaCoCoParser_parse(report) ==
    IF report = Malformed
    THEN ParseError("Error parsing JaCoCo report")
    ELSE _extract_counters(report.counters) @@ [package_details |-> << >>]

(***************************************************************************)
(* ui/main_window.py: the summary tab. What the tab shows is the record    *)
(* of its labels; a score card is the four labels                          *)
(* _create_compact_score_card packs.                                       *)
(***************************************************************************)
_create_compact_score_card(name, score, icon, color, weight) ==
    [weight_badge |-> weight,
     name_label |-> <<icon, " ", name>>,
     score_label |-> Fmt(score, 1),
     max_label |-> "/100",
     color |-> color]

\* scores_data and the loop over it
ScoreCards(scores) ==
    << _create_compact_score_card("Fiabilidad", scores.reliability,
                                  "shield", "#0d6efd", "40%"),
       _create_compact_score_card("Mantenibilidad", scores.maintainability,
                                  "gear", "#17a2b8", "40%"),
       _create_compact_score_card("Eficiencia", scores.performance,
                                  "stopwatch", "#28a745", "20%") >>

\* the labels built from the weighted result and the rating description
SummaryLabels(wqs, details, rating_info) ==
    [rating_label |-> details.rating,
     badge_color |-> details.rating_color,
     score_label |-> <<"Weighted Quality Score (WQS): ", Fmt(wqs, 2), "/100">>,
     status_label |-> <<rating_info.icon, " ", rating_info.title, " - ",
                        rating_info.description>>,
     recommend_label |-> rating_info.recommendation,
     cards |-> ScoreCards(details.scores)]

SummaryOf(res) ==
    SummaryLabels(res[1], res[2], get_rating_description(res[2].rating))

\* the metrics frame of the tab: the no-data label, or the rating section
\* and the three score cards
_update_summary_tab(self) ==
    IF ~Truthy(self.junit_data) /\ ~Truthy(self.jacoco_data)
    THEN [no_data_label |-> "No hay datos cargados"]
    ELSE SummaryOf(calculate_weighted_quality_score(self))

\* normalized_perf = max(0, 100 - (avg_time * 100))
NormalizedPerf(avg_time) ==
    RMax(Whole(0), RSub(Whole(100), RMul(avg_time, Whole(100))))

\* a category of the charts, its value and the label of its bar
Plotted(category, value) ==
    [category |-> category, value |-> value, bar_text |-> Fmt(value, 1)]

\* QualityDashboard._create_summary_charts: categories and values, in the
\* order they are appended
_create_summary_charts(self) ==
    (IF Truthy(self.junit_data)
     THEN << Plotted("Fiabilidad", calculate_success_rate(self.junit_data)) >>
     ELSE << >>)
    \o (IF Truthy(self.jacoco_data)
        THEN << Plotted("Mantenibilidad",
                        get_testability_score(self.jacoco_data)) >>
        ELSE << >>)
    \o (IF Truthy(self.junit_data)
        THEN << Plotted("Eficiencia",
                        NormalizedPerf(calculate_avg_test_time(self.junit_data))) >>
        ELSE << >>)

\* the labels of the formula section and the calculator its two export
\* buttons capture
FormulaSection(self, details) ==
    [formula_label |-> <<"Formula: ", details.formula>>,
     calc_label |-> details.calculation,
     export_calculator |-> self]

\* QualityDashboard._create_compact_formula_section
_create_compact_formula_section(self) ==
    FormulaSection(self, calculate_weighted_quality_score(self)[2])

\* Outcomes of ChartGenerator.create_radar_chart on the axes
\* _create_summary_charts passes: the axes come from fig.add_subplot(121)
\* without a polar projection, and the method calls set_theta_offset on
\* them.  Whether that call draws or raises is decided by matplotlib, not
\* by the source, so both outcomes are kept.
RadarOutcomes == {"drawn", "AttributeError"}

\* what the summary tab shows after _update_summary_tab: the metrics frame
\* and, unless there is no data or the radar chart raises, the charts and
\* the formula section created after it
SummaryTabShown(self, radar) ==
    IF (~Truthy(self.junit_data) /\ ~Truthy(self.jacoco_data))
         \/ radar = "AttributeError"
    THEN _update_summary_tab(self)
    ELSE [charts |-> _create_summary_charts(self),
          formula_section |-> _create_compact_formula_section(self)]
         @@ _update_summary_tab(self)

\* whether _update_summary_tab raises
SummaryTabRaises(self, radar) ==
    /\ Truthy(self.junit_data) \/ Truthy(self.jacoco_data)
    /\ radar = "AttributeError"

\* QualityDashboard._get_status_color
_get_status_color(status_color) ==
    Get([success |-> "#28a745", info |-> "#17a2b8", warning |-> "#ffc107",
         danger |-> "#dc3545", primary |-> "#0d6efd"],
        status_color, "#6c757d")

\* the metric cards of the Fiabilidad tab
ReliabilityTab(junit) ==
    [total_tests |-> junit.total_tests,
     failure_density |-> <<Fmt(calculate_failure_density(junit), 2), "%">>,
     failure_density_color |->
        _get_status_color(
            get_reliability_status(calculate_failure_density(junit)).color),
     success_rate |-> <<Fmt(calculate_success_rate(junit), 2), "%">>,
     total_faults |-> junit.failures + junit.errors]

\* the metric cards of the Mantenibilidad tab
MaintainabilityTab(jacoco) ==
    [line_coverage |-> <<Fmt(Get(jacoco, "line_coverage", Whole(0)), 2), "%">>,
     branch_coverage |-> <<Fmt(Get(jacoco, "branch_coverage", Whole(0)), 2), "%">>,
     testability |-> <<Fmt(get_testability_score(jacoco), 2), "%">>,
     testability_color |->
        _get_status_color(
            get_maintainability_status(get_testability_score(jacoco)).color)]

\* the metric cards of the Eficiencia tab
PerformanceTab(junit) ==
    [total_time |-> <<Fmt(junit.execution_time, 2), "s">>,
     total_time_color |->
        _get_status_color(
            get_performance_status(junit.execution_time,
                                   junit.total_tests).color),
     avg_time |-> <<Fmt(calculate_avg_test_time(junit), 3), "s">>,
     throughput |-> <<Fmt(Throughput(junit.total_tests, junit.execution_time), 2),
                      " test/s">>]

\* a tab nothing has been drawn on
EmptyTab == [empty |-> TRUE]

\* the value of a path variable before a file is chosen
NotSelected == [path |-> "No seleccionado"]

\* QualityDashboard.__init__: the paths, the status bar and the four tabs
NewWindow ==
    [junit_path |-> NotSelected,
     jacoco_path |-> NotSelected,
     status_bar |-> <<"Listo - Selecciona los archivos XML para comenzar">>,
     reliability_tab |-> EmptyTab,
     maintainability_tab |-> EmptyTab,
     performance_tab |-> EmptyTab,
     summary_tab |-> EmptyTab]

\* the except branch of _load_data
LoadFailed(w, message) == [w EXCEPT !.status_bar = <<"Error: ", message>>]

\* the four _update_*_tab calls of _load_data on the summaries j, c and the
\* status bar after them
TabsUpdated(w, j, c, radar) ==
    [w EXCEPT
       !.reliability_tab = IF Truthy(j) THEN ReliabilityTab(j) ELSE @,
       !.maintainability_tab = IF Truthy(c) THEN MaintainabilityTab(c) ELSE @,
       !.performance_tab = IF Truthy(j) THEN PerformanceTab(j) ELSE @,
       !.summary_tab = SummaryTabShown([junit_data |-> j, jacoco_data |-> c],
                                       radar),
       !.status_bar =
          IF SummaryTabRaises([junit_data |-> j, jacoco_data |-> c], radar)
          THEN <<"Error: ", "'Axes' object has no attribute 'set_theta_offset'">>
          ELSE <<"Datos cargados y analizados correctamente">>]

(***************************************************************************)
(* Inputs: the summaries a calculator is constructed with                  *)
(***************************************************************************)
MaxTests == 2

RatingGrid == 2

\* execution_time values (seconds): 0, 0.1, 0.5, 1, 2
Times == {Whole(0), Rat(1, 10), Rat(1, 2), Whole(1), Whole(2)}

\* TestRunSummary records with small counts.  passed is either what is left
\* of total_tests after failures, errors and skipped, or 0; the counts are
\* not forced to be consistent, so invalid summaries are inputs too.
SmallJunit ==
    UNION {
      { [total_tests |-> t, passed |-> p, failures |-> f, errors |-> e,
         skipped |-> s, execution_time |-> x] :
           p \in {t - f - e - s, 0}, x \in Times } :
      t \in 0..MaxTests, f \in 0..MaxTests, e \in 0..1, s \in 0..1 }

\* the run of the documented scenario: 100 tests, 3 failures, 2 errors, 45 s
ScenarioJunit ==
    [total_tests |-> 100, passed |-> 95, failures |-> 3, errors |-> 2,
     skipped |-> 0, execution_time |-> Whole(45)]

JunitInputs == SmallJunit \cup {ScenarioJunit}

\* <<covered, total>> of a coverage counter
Counters == {<<0, 0>>, <<0, 20>>, <<14, 20>>, <<17, 20>>, <<20, 20>>}

\* CoverageSummary records: with LINE and BRANCH counters, or with a LINE
\* counter only (the report had no BRANCH counter)
JacocoInputs ==
    { [line_coverage |-> Coverage(l), lines_covered |-> l[1],
       lines_total |-> l[2], branch_coverage |-> Coverage(b),
       branches_covered |-> b[1], branches_total |-> b[2]] :
         l \in Counters, b \in Counters }
    \cup
    { [line_coverage |-> Coverage(l), lines_covered |-> l[1],
       lines_total |-> l[2]] : l \in Counters }

\* arguments of _get_rating: a grid over [0,100], fractional scores next to
\* the band limits, and scores outside [0,100]
RatingInputs ==
    { Rat(k, RatingGrid) : k \in 0..(100 * RatingGrid) }
    \cup { Rat(7999, 100), Rat(89999, 1000), Rat(896, 10), Rat(591, 10),
           Rat(699, 10) }
    \cup { Whole(-1), Whole(101), Rat(1001, 10) }

\* arguments of the status classifications: percentages on the same grid,
\* values just below each limit, and values outside [0,100]
PercentInputs ==
    RatingInputs \cup { Rat(499, 100), Rat(999, 100), Rat(1999, 100) }

\* arguments of get_rating_description
DescriptionInputs == Letters \cup {"F", "a", ""}

(***************************************************************************)
(* State: the calculator's attributes, and what the last call returned     *)
(***************************************************************************)
\* the calculator is used without a dashboard window
NoWindow == [window |-> "none"]

Returned(op, value) == [op |-> op, value |-> value]

\* QualityRatingCalculator(junit_data, jacoco_data)
Init ==
    /\ junit_data \in JunitInputs \cup {None}
    /\ jacoco_data \in JacocoInputs \cup {None}
    /\ ret = NoCall
    /\ window = NoWindow

CalcReliability ==
    /\ ret' = Returned("calculate_reliability_score",
                       calculate_reliability_score(Self))
    /\ UNCHANGED <<junit_data, jacoco_data, window>>

CalcMaintainability ==
    /\ ret' = Returned("calculate_maintainability_score",
                       calculate_maintainability_score(Self))
    /\ UNCHANGED <<junit_data, jacoco_data, window>>

CalcPerformance ==
    /\ ret' = Returned("calculate_performance_score",
                       calculate_performance_score(Self))
    /\ UNCHANGED <<junit_data, jacoco_data, window>>

CalcWeightedQualityScore ==
    /\ ret' = Returned("calculate_weighted_quality_score",
                       calculate_weighted_quality_score(Self))
    /\ UNCHANGED <<junit_data, jacoco_data, window>>

GetQualityMetrics ==
    /\ ret' = Returned("get_quality_metrics", get_quality_metrics(Self))
    /\ UNCHANGED <<junit_data, jacoco_data, window>>

\* faulty variant: the report is rendered from the breakdown the last call
\* of calculate_weighted_quality_score returned, when there is one
GenerateTextReport_Memo ==
    /\ ret' = Returned("generate_text_report",
                       IF ret.op = "calculate_weighted_quality_score"
                       THEN TextReportOf(ret.value)
                       ELSE generate_text_report(Self))
    /\ UNCHANGED <<junit_data, jacoco_data, window>>

GenerateTextReport ==
    /\ ret' = Returned("generate_text_report", generate_text_report(Self))
    /\ UNCHANGED <<junit_data, jacoco_data, window>>

\* faulty variant: generating the report consumes the test summary
GenerateHtmlReport_Consuming ==
    /\ ret' = Returned("generate_html_report", generate_html_report(Self))
    /\ junit_data' = None
    /\ UNCHANGED <<jacoco_data, window>>

GenerateHtmlReport ==
    /\ ret' = Returned("generate_html_report", generate_html_report(Self))
    /\ UNCHANGED <<junit_data, jacoco_data, window>>

Next ==
    \/ CalcReliability
    \/ CalcMaintainability
    \/ CalcPerformance
    \/ CalcWeightedQualityScore
    \/ GetQualityMetrics
    \/ GenerateTextReport
    \/ GenerateHtmlReport

Spec == Init /\ [][Next]_vars

(***************************************************************************)
(* The table lookups, which read no attribute of the calculator: applied   *)
(* to every argument of the input sets on a calculator without summaries   *)
(***************************************************************************)
InitTables ==
    /\ junit_data = None
    /\ jacoco_data = None
    /\ ret = NoCall
    /\ window = NoWindow

GetRating(wqs) ==
    /\ ret' = [op |-> "_get_rating", arg |-> wqs, value |-> _get_rating(wqs)]
    /\ UNCHANGED <<junit_data, jacoco_data, window>>

GetRatingDescription(rating) ==
    /\ ret' = [op |-> "get_rating_description", arg |-> rating,
               value |-> get_rating_description(rating)]
    /\ UNCHANGED <<junit_data, jacoco_data, window>>

GetReliabilityStatus(failure_density) ==
    /\ ret' = [op |-> "get_reliability_status", arg |-> failure_density,
               value |-> get_reliability_status(failure_density)]
    /\ UNCHANGED <<junit_data, jacoco_data, window>>

GetMaintainabilityStatus(testability_score) ==
    /\ ret' = [op |-> "get_maintainability_status", arg |-> testability_score,
               value |-> get_maintainability_status(testability_score)]
    /\ UNCHANGED <<junit_data, jacoco_data, window>>

NextTables ==
    \/ \E wqs \in RatingInputs : GetRating(wqs)
    \/ \E rating \in DescriptionInputs : GetRatingDescription(rating)
    \/ \E failure_density \in PercentInputs :
          GetReliabilityStatus(failure_density)
    \/ \E testability_score \in PercentInputs :
          GetMaintainabilityStatus(testability_score)

SpecTables == InitTables /\ [][NextTables]_vars

(***************************************************************************)
(* A session with one calculator: calls interleaved with assignments to    *)
(* its two slots. ret keeps the value the last call returned; an           *)
(* assignment returns nothing and leaves it.                               *)
(***************************************************************************)
\* a run where every test fails, a run with no tests, a slow run
AllFailingJunit ==
    [total_tests |-> 2, passed |-> 0, failures |-> 2, errors |-> 0,
     skipped |-> 0, execution_time |-> Whole(1)]

EmptyJunit ==
    [total_tests |-> 0, passed |-> 0, failures |-> 0, errors |-> 0,
     skipped |-> 0, execution_time |-> Whole(0)]

SlowJunit ==
    [total_tests |-> 2, passed |-> 2, failures |-> 0, errors |-> 0,
     skipped |-> 0, execution_time |-> Whole(2)]

SessionJunit == {ScenarioJunit, AllFailingJunit, EmptyJunit, SlowJunit}

\* full coverage, 85% / 70% coverage, nothing covered, no BRANCH counter
SessionJacoco ==
    { c \in JacocoInputs :
        \/ "branch_coverage" \notin DOMAIN c /\ c.lines_covered = 14
        \/ /\ "branch_coverage" \in DOMAIN c
           /\ <<c.lines_covered, c.branches_covered>>
                 \in {<<20, 20>>, <<17, 14>>, <<0, 0>>}
           /\ c.lines_total = 20 /\ c.branches_total = 20 }

SessionRatings == {Whole(95), Rat(895, 10), Whole(0)}

\* QualityRatingCalculator(): both arguments default to None
InitSession ==
    /\ junit_data = None
    /\ jacoco_data = None
    /\ ret = NoCall
    /\ window = NoWindow

\* calculator.junit_data = j
SetJunitData(j) ==
    /\ junit_data' = j
    /\ UNCHANGED <<jacoco_data, ret, window>>

\* calculator.jacoco_data = c
SetJacocoData(c) ==
    /\ jacoco_data' = c
    /\ UNCHANGED <<junit_data, ret, window>>

UpdateSummaryTab ==
    /\ \E radar \in RadarOutcomes :
          ret' = Returned("_update_summary_tab", SummaryTabShown(Self, radar))
    /\ UNCHANGED <<junit_data, jacoco_data, window>>

NextSession ==
    \/ \E j \in SessionJunit \cup {None} : SetJunitData(j)
    \/ \E c \in SessionJacoco \cup {None} : SetJacocoData(c)
    \/ CalcReliability
    \/ CalcMaintainability
    \/ CalcPerformance
    \/ CalcWeightedQualityScore
    \/ GetQualityMetrics
    \/ GenerateTextReport
    \/ GenerateHtmlReport
    \/ \E wqs \in SessionRatings : GetRating(wqs)
    \/ \E rating \in DescriptionInputs : GetRatingDescription(rating)
    \/ UpdateSummaryTab

SpecSession == InitSession /\ [][NextSession]_vars

(***************************************************************************)
(* The parsers and the metrics classes applied to parsed reports.          *)
(* junit_data and jacoco_data hold the summaries parsed last.              *)
(***************************************************************************)
\* time attributes (seconds): those of Times and 1.5
ReportTimes == Times \cup {Rat(3, 2)}

\* testsuite attributes: small counts in every combination, consistent or
\* not, with a time of 1 s; and runs without faults with every time
JunitReports ==
    { [tests |-> t, failures |-> f, errors |-> e, skipped |-> s,
       time |-> Whole(1)] :
        t \in 0..MaxTests, f \in 0..MaxTests, e \in 0..1, s \in 0..1 }
    \cup
    { [tests |-> t, failures |-> 0, errors |-> 0, skipped |-> 0, time |-> x] :
        t \in 0..MaxTests, x \in ReportTimes }

\* <<covered, total>> of the counter elements of the reports
ReportCounters == {<<0, 0>>, <<17, 20>>, <<20, 20>>}

CounterElement(type, c) == [type |-> type, missed |-> c[2] - c[1], covered |-> c[1]]

\* reports with an INSTRUCTION, a BRANCH and a LINE counter, and reports
\* with a LINE counter only
JacocoReports ==
    { [counters |-> << CounterElement("INSTRUCTION", l),
                       CounterElement("BRANCH", b),
                       CounterElement("LINE", l),
                       CounterElement("METHOD", l) >>] :
        l \in ReportCounters, b \in ReportCounters }
    \cup { [counters |-> << CounterElement("LINE", l) >>] :
             l \in ReportCounters }

InitMetrics ==
    /\ junit_data = None
    /\ jacoco_data = None
    /\ ret = NoCall
    /\ window = NoWindow

\* junit_data = JUnitParser(report).parse()
ParseJunit(report) ==
    /\ ret' = Returned("JUnitParser.parse", JUnitParser_parse(report))
    /\ junit_data' = IF IsRaised(JUnitParser_parse(report))
                     THEN junit_data
                     ELSE JUnitParser_parse(report)
    /\ UNCHANGED <<jacoco_data, window>>

\* jacoco_data = JaCoCoParser(report).parse()
ParseJacoco(report) ==
    /\ ret' = Returned("JaCoCoParser.parse", JaCoCoParser_parse(report))
    /\ jacoco_data' = IF IsRaised(JaCoCoParser_parse(report))
                      THEN jacoco_data
                      ELSE JaCoCoParser_parse(report)
    /\ UNCHANGED <<junit_data, window>>

CalcFailureDensity ==
    /\ junit_data # None
    /\ ret' = Returned("calculate_failure_density",
                       calculate_failure_density(junit_data))
    /\ UNCHANGED <<junit_data, jacoco_data, window>>

CalcSuccessRate ==
    /\ junit_data # None
    /\ ret' = Returned("calculate_success_rate",
                       calculate_success_rate(junit_data))
    /\ UNCHANGED <<junit_data, jacoco_data, window>>

CalcAvgTestTime ==
    /\ junit_data # None
    /\ ret' = Returned("calculate_avg_test_time",
                       calculate_avg_test_time(junit_data))
    /\ UNCHANGED <<junit_data, jacoco_data, window>>

GetPerformanceStatus ==
    /\ junit_data # None
    /\ ret' = Returned("get_performance_status",
                       get_performance_status(junit_data.execution_time,
                                              junit_data.total_tests))
    /\ UNCHANGED <<junit_data, jacoco_data, window>>

GetTestabilityScore ==
    /\ jacoco_data # None
    /\ ret' = Returned("get_testability_score",
                       get_testability_score(jacoco_data))
    /\ UNCHANGED <<junit_data, jacoco_data, window>>

NextMetrics ==
    \/ \E report \in JunitReports \cup {Malformed} : ParseJunit(report)
    \/ \E report \in JacocoReports \cup {Malformed} : ParseJacoco(report)
    \/ CalcFailureDensity
    \/ CalcSuccessRate
    \/ CalcAvgTestTime
    \/ GetPerformanceStatus
    \/ GetTestabilityScore
    \/ CalcReliability
    \/ CalcMaintainability
    \/ CalcPerformance

SpecMetrics == InitMetrics /\ [][NextMetrics]_vars

(***************************************************************************)
(* The three scorers called one by one in any order on one calculator,     *)
(* and their results combined as calculate_weighted_quality_score combines *)
(* them.  ret keeps the order of the calls and the results so far.         *)
(***************************************************************************)
InitOrder ==
    /\ junit_data \in SessionJunit \cup {None}
    /\ jacoco_data \in SessionJacoco \cup {None}
    /\ ret = NoCall
    /\ window = NoWindow

\* the scorers called since the last combination, and their results
ScorersRun == IF ret.op = "scorers" THEN ret.order ELSE << >>

ScoresSoFar == IF ret.op = "scorers" THEN ret.scores ELSE << >>

HasRun(name) == \E i \in 1..Len(ScorersRun) : ScorersRun[i] = name

Scored(name, result) ==
    [op |-> "scorers",
     order |-> Append(ScorersRun, name),
     scores |-> (name :> result) @@ ScoresSoFar]

\* reliability_score, rel_details = self.calculate_reliability_score()
ScoreReliability ==
    /\ ~HasRun("reliability")
    /\ ret' = Scored("reliability", calculate_reliability_score(Self))
    /\ UNCHANGED <<junit_data, jacoco_data, window>>

\* maintainability_score, maint_details = self.calculate_maintainability_score()
ScoreMaintainability ==
    /\ ~HasRun("maintainability")
    /\ ret' = Scored("maintainability", calculate_maintainability_score(Self))
    /\ UNCHANGED <<junit_data, jacoco_data, window>>

\* faulty variant: the scorer takes the time out of the summary it reads
ScorePerformance_Consuming ==
    /\ ~HasRun("performance")
    /\ ret' = Scored("performance", calculate_performance_score(Self))
    /\ junit_data' = IF junit_data = None THEN None ELSE EmptyJunit
    /\ UNCHANGED <<jacoco_data, window>>

\* performance_score, perf_details = self.calculate_performance_score()
ScorePerformance ==
    /\ ~HasRun("performance")
    /\ ret' = Scored("performance", calculate_performance_score(Self))
    /\ UNCHANGED <<junit_data, jacoco_data, window>>

\* the weighted sum, the rating and the details record of the three results
CombineScores ==
    /\ Len(ScorersRun) = 3
    /\ ret' = [op |-> "calculate_weighted_quality_score",
               order |-> ret.order,
               value |-> WeightedOf(ret.scores["reliability"],
                                    ret.scores["maintainability"],
                                    ret.scores["performance"])]
    /\ UNCHANGED <<junit_data, jacoco_data, window>>

NextOrder ==
    \/ ScoreReliability
    \/ ScoreMaintainability
    \/ ScorePerformance
    \/ CombineScores

SpecOrder == InitOrder /\ [][NextOrder]_vars

(***************************************************************************)
(* ui/main_window.py: the dashboard.  junit_data and jacoco_data are the   *)
(* slots of the QualityDashboard; window holds the two path variables, the *)
(* status bar and what the four tabs show.  A path variable holds the      *)
(* report the selected file contains.                                      *)
(***************************************************************************)
\* the documented run; a run with a skipped test and 1 s per test
DashboardJunitFiles ==
    { [tests |-> 100, failures |-> 3, errors |-> 2, skipped |-> 0,
       time |-> Whole(45)],
      [tests |-> 2, failures |-> 0, errors |-> 0, skipped |-> 1,
       time |-> Whole(2)],
      Malformed }

\* 85% line and 70% branch coverage; a report with a LINE counter only
DashboardJacocoFiles ==
    { [counters |-> << CounterElement("BRANCH", <<14, 20>>),
                       CounterElement("LINE", <<17, 20>>) >>],
      [counters |-> << CounterElement("LINE", <<20, 20>>) >>],
      Malformed }

InitDashboard ==
    /\ junit_data = None
    /\ jacoco_data = None
    /\ ret = NoCall
    /\ window = NewWindow

\* _select_junit_file with a file chosen in the dialog
SelectJunitFile(file) ==
    /\ window' = [window EXCEPT !.junit_path = file]
    /\ UNCHANGED <<junit_data, jacoco_data, ret>>

\* _select_jacoco_file with a file chosen in the dialog
SelectJacocoFile(file) ==
    /\ window' = [window EXCEPT !.jacoco_path = file]
    /\ UNCHANGED <<junit_data, jacoco_data, ret>>

\* what _load_data has in junit_data after its JUnit step: the parsed
\* summary, the old one when no file is selected, or the exception raised
LoadedJunit ==
    IF window.junit_path = NotSelected
    THEN junit_data
    ELSE JUnitParser_parse(window.junit_path)

LoadedJacoco ==
    IF window.jacoco_path = NotSelected
    THEN jacoco_data
    ELSE JaCoCoParser_parse(window.jacoco_path)

\* _load_data
LoadData(radar) ==
    /\ ret' = Returned("_load_data", None)
    /\ IF IsRaised(LoadedJunit)
       THEN /\ window' = LoadFailed(window, LoadedJunit.message)
            /\ UNCHANGED <<junit_data, jacoco_data>>
       ELSE IF IsRaised(LoadedJacoco)
       THEN /\ junit_data' = LoadedJunit
            /\ window' = LoadFailed(window, LoadedJacoco.message)
            /\ UNCHANGED jacoco_data
       ELSE /\ junit_data' = LoadedJunit
            /\ jacoco_data' = LoadedJacoco
            /\ window' = TabsUpdated(window, LoadedJunit, LoadedJacoco, radar)

\* _export_text_report(calculator) from the button of the formula section
ExportTextReport ==
    /\ "formula_section" \in DOMAIN window.summary_tab
    /\ ret' = Returned("_export_text_report",
                       generate_text_report(
                           window.summary_tab.formula_section.export_calculator))
    /\ UNCHANGED <<junit_data, jacoco_data, window>>

\* _export_html_report(calculator) from the button of the formula section
ExportHtmlReport ==
    /\ "formula_section" \in DOMAIN window.summary_tab
    /\ ret' = Returned("_export_html_report",
                       generate_html_report(
                           window.summary_tab.formula_section.export_calculator))
    /\ UNCHANGED <<junit_data, jacoco_data, window>>

NextDashboard ==
    \/ \E file \in DashboardJunitFiles : SelectJunitFile(file)
    \/ \E file \in DashboardJacocoFiles : SelectJacocoFile(file)
    \/ \E radar \in RadarOutcomes : LoadData(radar)
    \/ ExportTextReport
    \/ ExportHtmlReport

SpecDashboard == InitDashboard /\ [][NextDashboard]_vars

(***************************************************************************)
(* Properties                                                              *)
(***************************************************************************)
Called(op) == ret.op = op

InRange(x) == RLe(Whole(0), x) /\ RLe(x, Whole(100))

\* the data-model invariants of a TestRunSummary / CoverageSummary
ValidJunit(j) ==
    /\ j.total_tests >= 0 /\ j.passed >= 0 /\ j.failures >= 0
    /\ j.errors >= 0 /\ j.skipped >= 0
    /\ j.failures + j.errors <= j.total_tests
    /\ RLe(Whole(0), j.execution_time)

ValidJacoco(c) ==
    /\ InRange(Get(c, "line_coverage", Whole(0)))
    /\ InRange(Get(c, "branch_coverage", Whole(0)))

\* C1: _get_rating uses the real-valued thresholds 90/80/70/60: for every
\* wqs in [0,100] it returns A iff wqs >= 90, B iff 80 <= wqs < 90, C iff
\* 70 <= wqs < 80, D iff 60 <= wqs < 70 and E iff wqs < 60.
C1_RealValuedThresholds ==
    (Called("_get_rating") /\ InRange(ret.arg)) =>
        /\ ret.value = "A" <=> RLe(Whole(90), ret.arg)
        /\ ret.value = "B" <=> (RLe(Whole(80), ret.arg) /\ RLt(ret.arg, Whole(90)))
        /\ ret.value = "C" <=> (RLe(Whole(70), ret.arg) /\ RLt(ret.arg, Whole(80)))
        /\ ret.value = "D" <=> (RLe(Whole(60), ret.arg) /\ RLt(ret.arg, Whole(70)))
        /\ ret.value = "E" <=> RLt(ret.arg, Whole(60))

C3_ReportsNeverRaise ==
    (Called("generate_text_report") \/ Called("generate_html_report"))
        => ~IsRaised(ret.value)

\* C4: calculate_weighted_quality_score returns
\* 0.40 x reliability + 0.40 x maintainability + 0.20 x performance of the
\* scores the three calculate_*_score operations return on the same
\* summaries, the weights sum to 1, and reliability 95, maintainability 79,
\* performance 100 give 89.6.
C4_WeightedSum ==
    Called("calculate_weighted_quality_score") =>
        LET r == calculate_reliability_score(Self)[1]
            m == calculate_maintainability_score(Self)[1]
            p == calculate_performance_score(Self)[1]
            d == ret.value[2]
        IN  /\ d.scores.reliability = r
            /\ d.scores.maintainability = m
            /\ d.scores.performance = p
            /\ REq(RMul(Whole(10), ret.value[1]),
                   RAdd(RAdd(RMul(Whole(4), r), RMul(Whole(4), m)),
                        RMul(Whole(2), p)))
            /\ d.weighted_quality_score = ret.value[1]
            /\ REq(RAdd(RAdd(d.weights.reliability, d.weights.maintainability),
                        d.weights.performance), Whole(1))
            /\ (r = Whole(95) /\ m = Whole(79) /\ p = Whole(100))
                  => ret.value[1] = Rat(896, 10)

C4_Witness ==
    /\ junit_data = ScenarioJunit
    /\ jacoco_data # None
    /\ Called("calculate_weighted_quality_score")
    /\ ret.value[2].scores =
         [reliability |-> Whole(95), maintainability |-> Whole(79),
          performance |-> Whole(100)]
    /\ ret.value[1] = Rat(896, 10)

\* C5: the rating bands partition [0,100]: every wqs in [0,100] lies in
\* exactly one band of RATING_RANGES and _get_rating returns the letter of
\* that band, not the fallback.
C5_BandsPartition ==
    (Called("_get_rating") /\ InRange(ret.arg)) =>
        /\ Cardinality(MatchingBands(ret.arg)) = 1
        /\ \A i \in MatchingBands(ret.arg) : ret.value = RATING_RANGES[i][1]

\* C6: for summaries that are absent or satisfy the data-model invariants,
\* the three factor scores and the weighted quality score returned by
\* calculate_weighted_quality_score lie in [0,100] and the rating is one of
\* A, B, C, D, E.
C6_ScoresInRange ==
    ( /\ Called("calculate_weighted_quality_score")
      /\ (junit_data = None \/ ValidJunit(junit_data))
      /\ (jacoco_data = None \/ ValidJacoco(jacoco_data)) )
    => /\ InRange(ret.value[2].scores.reliability)
       /\ InRange(ret.value[2].scores.maintainability)
       /\ InRange(ret.value[2].scores.performance)
       /\ InRange(ret.value[1])
       /\ ret.value[2].rating \in Letters

C6_Witness ==
    /\ Called("calculate_weighted_quality_score")
    /\ junit_data # None /\ ValidJunit(junit_data)
    /\ junit_data.total_tests > 0
    /\ RLt(PERFORMANCE_THRESHOLD,
           RDiv(junit_data.execution_time, Whole(junit_data.total_tests)))
    /\ jacoco_data # None /\ ValidJacoco(jacoco_data)
    /\ RLt(Whole(0), ret.value[2].scores.performance)
    /\ RLt(ret.value[2].scores.performance, Whole(100))
    /\ ret.value[2].rating = "D"

\* C7: for total_tests > 0, calculate_reliability_score returns
\* (1 - (failures + errors) / total_tests) x 100, whatever the passed and
\* skipped counts and the execution_time are.
C7_ReliabilityFormula ==
    (Called("calculate_reliability_score") /\ junit_data # None
        /\ junit_data.total_tests > 0)
    => /\ ret.value[1][1] * junit_data.total_tests =
            100 * (junit_data.total_tests - junit_data.failures
                     - junit_data.errors) * ret.value[1][2]
       /\ \A p \in 0..MaxTests, s \in 0..MaxTests, x \in Times :
            calculate_reliability_score(
                [Self EXCEPT !.junit_data =
                    [junit_data EXCEPT !.passed = p, !.skipped = s,
                                       !.execution_time = x]])[1]
            = ret.value[1]

C7_Witness ==
    /\ Called("calculate_reliability_score") /\ junit_data # None
    /\ junit_data.total_tests = 2 /\ junit_data.failures = 1
    /\ junit_data.errors = 0 /\ junit_data.skipped = 1
    /\ ret.value[1] = Whole(50)

\* C8 as stated: for every valid TestRunSummary with failures = 0 and
\* errors = 0, calculate_reliability_score returns exactly 100.0.
C8_NoFaultsAlways100 ==
    (Called("calculate_reliability_score") /\ junit_data # None
        /\ ValidJunit(junit_data)
        /\ junit_data.failures = 0 /\ junit_data.errors = 0)
    => ret.value[1] = Whole(100)

\* C8 amended: for every valid TestRunSummary with total_tests > 0,
\* failures = 0 and errors = 0, calculate_reliability_score returns exactly
\* 100.0; with total_tests = 0 it returns 0.0.
C8_NoFaultsWithTests100 ==
    (Called("calculate_reliability_score") /\ junit_data # None
        /\ ValidJunit(junit_data)
        /\ junit_data.failures = 0 /\ junit_data.errors = 0)
    => ret.value[1] = (IF junit_data.total_tests > 0 THEN Whole(100)
                       ELSE Whole(0))

C8_Witness ==
    /\ Called("calculate_reliability_score") /\ junit_data # None
    /\ ValidJunit(junit_data)
    /\ junit_data.total_tests > 0
    /\ junit_data.failures = 0 /\ junit_data.errors = 0
    /\ junit_data.skipped > 0
    /\ ret.value[1] = Whole(100)

\* C9: for every TestRunSummary with total_tests = 0, whatever its other
\* fields, calculate_reliability_score returns the value 0.0 and a detail
\* record that holds an 'error' entry and no calculation trace.
C9_NoTestsIsNoData ==
    (Called("calculate_reliability_score") /\ junit_data # None
        /\ junit_data.total_tests = 0)
    => /\ ret.value[1] = Whole(0)
       /\ "error" \in DOMAIN ret.value[2]
       /\ "calculation" \notin DOMAIN ret.value[2]
       /\ "fault_density" \notin DOMAIN ret.value[2]

C9_Witness ==
    /\ Called("calculate_reliability_score") /\ junit_data # None
    /\ junit_data.total_tests = 0
    /\ junit_data.failures > 0
    /\ ret.value = <<Whole(0), [error |-> "No tests executed"]>>

C11_NoPerformanceSignal ==
    ( /\ Called("calculate_performance_score") /\ junit_data # None
      /\ (junit_data.total_tests = 0
            \/ REq(junit_data.execution_time, Whole(0))) )
    => /\ ret.value[1] = Whole(100)
       /\ DOMAIN ret.value[2] = {"note"}
       /\ junit_data.total_tests = 0
             => /\ calculate_reliability_score(Self)[1] = Whole(0)
                /\ "error" \in DOMAIN calculate_reliability_score(Self)[2]

C11_Witness ==
    /\ Called("calculate_performance_score") /\ junit_data # None
    /\ junit_data.total_tests = 0
    /\ RLt(Whole(0), junit_data.execution_time)
    /\ ret.value[1] = Whole(100)
    /\ "note" \in DOMAIN ret.value[2]

\* C12: for total_tests > 0 and execution_time > 0, with
\* avg = execution_time / total_tests and threshold 0.5 s,
\* calculate_performance_score returns 100 when avg <= threshold and
\* (threshold / avg) x 100 otherwise, so avg = 2 x threshold gives 50; the
\* result is greater than 0 and at most 100.
C12_PerformanceFormula ==
    ( /\ Called("calculate_performance_score") /\ junit_data # None
      /\ junit_data.total_tests > 0
      /\ RLt(Whole(0), junit_data.execution_time) )
    => LET t == junit_data.execution_time
           n == junit_data.total_tests
           v == ret.value[1]
       IN  \* avg <= 1/2  iff  2 * t <= n
           /\ (2 * t[1] <= n * t[2]) => v = Whole(100)
           \* v = (1/2) / (t/n) * 100  iff  v * t = 50 * n
           /\ (2 * t[1] > n * t[2]) => v[1] * t[1] = 50 * n * t[2] * v[2]
           /\ (t[1] = n * t[2]) => v = Whole(50)
           /\ RLt(Whole(0), v) /\ RLe(v, Whole(100))
           /\ ret.value[2].avg_test_time = Rat(t[1], n * t[2])

C12_Witness ==
    /\ Called("calculate_performance_score") /\ junit_data # None
    /\ junit_data.total_tests = 2
    /\ junit_data.execution_time = Whole(2)
    /\ ret.value[1] = Whole(50)

\* C13: a summary that violates its invariant (negative count, failures +
\* errors > total_tests, coverage outside [0,100]) is rejected with a
\* descriptive error instead of a score: the scoring operations return no
\* calculated score for it.
C13_InvalidSummaryRejected ==
    /\ ( /\ Called("calculate_reliability_score") /\ junit_data # None
         /\ ~ValidJunit(junit_data) )
       => "error" \in DOMAIN ret.value[2]
    /\ ( /\ Called("calculate_maintainability_score") /\ jacoco_data # None
         /\ ~ValidJacoco(jacoco_data) )
       => "error" \in DOMAIN ret.value[2]

\* C14: get_rating_description is total: for A, B, C, D, E it returns that
\* rating's own record with title, description, recommendation, and for
\* any other input the record of E; it never raises.
C14_DescriptionTotal ==
    Called("get_rating_description") =>
        /\ ~IsRaised(ret.value)
        /\ {"title", "description", "recommendation"} \subseteq DOMAIN ret.value
        /\ ret.value.title =
             (CASE ret.arg = "A" -> "Excelente"
                [] ret.arg = "B" -> "Bueno"
                [] ret.arg = "C" -> "Aceptable"
                [] ret.arg = "D" -> "Pobre"
                [] OTHER -> "Critico")
        /\ ret.arg \in Letters => ret.value = descriptions[ret.arg]
        /\ ret.arg \notin Letters => ret.value = descriptions["E"]

C14_Witness ==
    /\ Called("get_rating_description")
    /\ ret.arg = "F"
    /\ ret.value.title = "Critico"
    /\ ret.value.recommendation =
         "Revision completa del codigo y estrategia de testing urgente"

\* C16: no scoring or reporting operation changes the calculator's state:
\* every step in which a call returns leaves the junit_data and
\* jacoco_data slots, and the contents of the summaries they hold, as they
\* were.
C16_CallsKeepState ==
    [][ ret' # ret => (junit_data' = junit_data /\ jacoco_data' = jacoco_data)
      ]_vars

C16_Witness ==
    /\ Called("generate_html_report")
    /\ junit_data = ScenarioJunit
    /\ jacoco_data # None
    /\ "html" \in DOMAIN ret.value

\* C17: the score breakdown is never cached: in any sequence of calls
\* interleaved with replacements of junit_data or jacoco_data, the result
\* a call of calculate_weighted_quality_score or a report generation
\* returns is the one computed from the summaries held at that call; in
\* particular its reliability score is the one of the junit_data held then.
C17_NeverCached ==
    [][ ret' # ret =>
          /\ ret'.op = "calculate_weighted_quality_score" =>
               /\ ret'.value = calculate_weighted_quality_score(Self')
               /\ junit_data' = None =>
                    ret'.value[2].scores.reliability = Whole(0)
               /\ (junit_data' # None /\ junit_data'.total_tests > 0) =>
                    ret'.value[2].scores.reliability =
                      Rat(100 * (junit_data'.total_tests
                                   - junit_data'.failures - junit_data'.errors),
                          junit_data'.total_tests)
               /\ jacoco_data' = None =>
                    ret'.value[2].scores.maintainability = Whole(0)
          /\ ret'.op = "generate_text_report" =>
               ret'.value = generate_text_report(Self')
          /\ ret'.op = "generate_html_report" =>
               ret'.value = generate_html_report(Self')
      ]_vars

C17_Witness ==
    /\ Called("calculate_weighted_quality_score")
    /\ junit_data = AllFailingJunit
    /\ jacoco_data # None /\ jacoco_data.lines_covered = 20
    /\ ret.value[2].scores.reliability = Whole(0)
    /\ ret.value[2].scores.maintainability = Whole(100)
    /\ ret.value[1] = Whole(60)

\* C18: the summary view distinguishes 'no data' from 'data present but
\* scored zero': when exactly one summary is loaded, the score card of the
\* factor whose summary is absent differs from the score card that factor
\* gets from any present summary.
C18_NoDataDistinguished ==
    Called("_update_summary_tab") =>
        /\ (junit_data = None /\ jacoco_data # None) =>
             \A j \in SessionJunit :
                _update_summary_tab([junit_data |-> j,
                                     jacoco_data |-> jacoco_data]).cards[1]
                  # ret.value.cards[1]
        /\ (jacoco_data = None /\ junit_data # None) =>
             \A c \in SessionJacoco :
                _update_summary_tab([junit_data |-> junit_data,
                                     jacoco_data |-> c]).cards[2]
                  # ret.value.cards[2]

C20_MaintainabilityStatus ==
    Called("get_maintainability_status") =>
        /\ ret.value.status = "Excelente" <=> RLe(Whole(80), ret.arg)
        /\ ret.value.status = "Bueno" <=>
             (RLe(Whole(70), ret.arg) /\ RLt(ret.arg, Whole(80)))
        /\ ret.value.status = "Aceptable" <=>
             (RLe(Whole(60), ret.arg) /\ RLt(ret.arg, Whole(70)))
        /\ ret.value.status = "Pobre" <=> RLt(ret.arg, Whole(60))

C20_Witness ==
    /\ Called("get_maintainability_status")
    /\ ret.arg = Whole(70)
    /\ ret.value.status = "Bueno"

C22_DensityAndRate ==
    /\ ( Called("calculate_failure_density") /\ junit_data # None ) =>
         IF junit_data.total_tests > 0
         THEN ret.value[1] * junit_data.total_tests
                = 100 * (junit_data.failures + junit_data.errors) * ret.value[2]
         ELSE ret.value = Whole(0)
    /\ ( Called("calculate_success_rate") /\ junit_data # None ) =>
         IF junit_data.total_tests > 0
         THEN ret.value[1] * junit_data.total_tests
                = 100 * junit_data.passed * ret.value[2]
         ELSE ret.value = Whole(0)

C22_Witness ==
    /\ Called("calculate_success_rate") /\ junit_data # None
    /\ junit_data.total_tests = 2
    /\ junit_data.skipped = 1
    /\ junit_data.passed = 1
    /\ ret.value = Whole(50)

\* C23: the weighted quality score does not depend on the order in which
\* the three scorers run: for every pair of summaries and every order of
\* the calls to calculate_reliability_score,
\* calculate_maintainability_score and calculate_performance_score, the
\* three scores, the wqs and the rating are those of the order
\* calculate_weighted_quality_score itself uses.
C23_OrderIndependent ==
    ( Called("calculate_weighted_quality_score") /\ "order" \in DOMAIN ret )
    => /\ ret.value[1] = calculate_weighted_quality_score(Self)[1]
       /\ ret.value[2].scores = calculate_weighted_quality_score(Self)[2].scores
       /\ ret.value[2].rating = calculate_weighted_quality_score(Self)[2].rating
       /\ ret.value[2].scores.reliability = calculate_reliability_score(Self)[1]
       /\ ret.value[2].scores.maintainability
            = calculate_maintainability_score(Self)[1]
       /\ ret.value[2].scores.performance = calculate_performance_score(Self)[1]

C23_Witness ==
    /\ Called("calculate_weighted_quality_score")
    /\ "order" \in DOMAIN ret
    /\ ret.order = <<"performance", "maintainability", "reliability">>
    /\ junit_data = ScenarioJunit
    /\ jacoco_data # None
    /\ ret.value[2].scores.reliability = Whole(95)

\* the order of the rating letters, E < D < C < B < A
Rank(letter) ==
    CASE letter = "A" -> 5
      [] letter = "B" -> 4
      [] letter = "C" -> 3
      [] letter = "D" -> 2
      [] OTHER -> 1

\* C25: the rating is monotone in the score: for all wqs1 <= wqs2 in
\* [0,100], _get_rating(wqs2) is the same letter as or a better letter than
\* _get_rating(wqs1); a higher score never gets a worse rating.
C25_RatingMonotone ==
    ( Called("_get_rating") /\ InRange(ret.arg) ) =>
        \A wqs1 \in RatingInputs :
            (InRange(wqs1) /\ RLe(wqs1, ret.arg)) =>
                Rank(_get_rating(wqs1)) <= Rank(ret.value)

\* C24: every TestRunSummary returned by JUnitParser.parse satisfies the
\* data-model invariant: passed, failures, errors and skipped are
\* non-negative and passed + failures + errors + skipped = total_tests, for
\* every combination of attribute values in the report.
C24_ParsedSummaryValid ==
    ( Called("JUnitParser.parse") /\ ~IsRaised(ret.value) ) =>
        /\ ret.value.passed >= 0
        /\ ret.value.failures >= 0
        /\ ret.value.errors >= 0
        /\ ret.value.skipped >= 0
        /\ ret.value.passed + ret.value.failures + ret.value.errors
             + ret.value.skipped = ret.value.total_tests

ParserErrorShown(w) ==
    w.status_bar \in { <<"Error: ", "Error parsing JUnit report">>,
                       <<"Error: ", "Error parsing JaCoCo report">> }

\* C27: a failed load action is atomic: whenever _load_data ends in its
\* error branch because one of the two parsers raised, junit_data and
\* jacoco_data of the dashboard are the same as before the action and the
\* four tabs show what they showed before.
C27_FailedLoadAtomic ==
    [][ (ret'.op = "_load_data" /\ ParserErrorShown(window')) =>
          /\ junit_data' = junit_data
          /\ jacoco_data' = jacoco_data
          /\ window'.reliability_tab = window.reliability_tab
          /\ window'.maintainability_tab = window.maintainability_tab
          /\ window'.performance_tab = window.performance_tab
          /\ window'.summary_tab = window.summary_tab
      ]_vars

\* the position of a category among the score cards
CardIndex(category) ==
    CASE category = "Fiabilidad" -> 1
      [] category = "Mantenibilidad" -> 2
      [] category = "Eficiencia" -> 3

\* the score of the breakdown for a category
ScoreOf(scores, category) ==
    CASE category = "Fiabilidad" -> scores.reliability
      [] category = "Mantenibilidad" -> scores.maintainability
      [] category = "Eficiencia" -> scores.performance

C30_NoBranchCoverage ==
    ( /\ Called("calculate_maintainability_score") /\ jacoco_data # None
      /\ \/ "branch_coverage" \notin DOMAIN jacoco_data
         \/ jacoco_data.branches_total = 0 )
    => /\ ret.value[2].branch_coverage = Whole(0)
       /\ 10 * ret.value[1][1] * jacoco_data.line_coverage[2]
            = 6 * jacoco_data.line_coverage[1] * ret.value[1][2]
       /\ RLe(ret.value[1], Whole(60))
       /\ get_testability_score(jacoco_data) = ret.value[1]

C30_Witness ==
    /\ Called("calculate_maintainability_score") /\ jacoco_data # None
    /\ "branch_coverage" \notin DOMAIN jacoco_data
    /\ jacoco_data.line_coverage = Whole(100)
    /\ ret.value[1] = Whole(60)

====
